---- MODULE Spec2Model ----
(***************************************************************************)
(* Model of the opentui web session core (packages/web/src/server/         *)
(* session.ts), the frame differ (packages/web/src/shared/span-differ.ts), *)
(* the browser-side message application (packages/web/src/client) and the  *)
(* server multiplexer endpoint with its SessionManager.                    *)
(***************************************************************************)
EXTENDS Integers, Sequences, FiniteSets, TLC

(***************************************************************************)
(* Bounds of the model                                                     *)
(***************************************************************************)
\* maxCols / maxRows options of createSession, scaled down
maxCols == 1
maxRows == 2
\* longest line array given to the differ
MaxLen == 3
\* the counter of tick requests made during a running tick saturates here
ReqCap == 2
\* frames one connection receives
MaxArrivals == 3
\* calls of connectTunnel in one process
MaxConnects == 2
\* sockets one MultiplexerConnection creates
MaxChannels == 3
\* unsubscribe handles one MultiplexerConnection returns
MaxHandles == 3

(***************************************************************************)
(* Styled spans and lines (shared/types.ts, VTermSpan / VTermLine)         *)
(***************************************************************************)
SpanA == [text |-> "hi", fg |-> "none", bg |-> "none", flags |-> 0, width |-> 2]
SpanB == [text |-> "hi", fg |-> "#ff0000", bg |-> "none", flags |-> 1, width |-> 2]

EmptyLine == [spans |-> <<>>]
LineA == [spans |-> <<SpanA>>]
LineB == [spans |-> <<SpanA, SpanB>>]
LineC == [spans |-> <<SpanB>>]

\* the lines the differ is exercised with
DiffLineSet == {EmptyLine, LineA, LineB, LineC}
\* the lines a rendered frame is made of
FrameLineSet == {EmptyLine, LineA}

\* prev[i] when i is past the end of the array
Undefined == [spans |-> <<>>, undefined |-> TRUE]

\* a[i] reading an empty line past the end of the array
At_EmptyPastEnd(arr, i) == IF i + 1 <= Len(arr) THEN arr[i + 1] ELSE [spans |-> <<>>]

\* a[i] of a JavaScript array, i counted from 0
At(arr, i) == IF i + 1 <= Len(arr) THEN arr[i + 1] ELSE Undefined

Max(a, b) == IF a >= b THEN a ELSE b
Min(a, b) == IF a <= b THEN a ELSE b

RECURSIVE SeqsOfLen(_, _)
SeqsOfLen(S, n) ==
    IF n = 0 THEN {<<>>}
    ELSE {Append(q, e) : q \in SeqsOfLen(S, n - 1), e \in S}

SeqsUpTo(S, n) == UNION {SeqsOfLen(S, k) : k \in 0..n}

(***************************************************************************)
(* span-differ.ts                                                          *)
(***************************************************************************)
spansEqual(a, b) ==
    /\ a.text = b.text
    /\ a.fg = b.fg
    /\ a.bg = b.bg
    /\ a.flags = b.flags
    /\ a.width = b.width

\* linesEqual comparing only the number of spans
linesEqual_CountOnly(a, b) ==
    IF a = Undefined \/ b = Undefined THEN a = b
    ELSE Len(a.spans) = Len(b.spans)

linesEqual(a, b) ==
    IF a = Undefined \/ b = Undefined THEN a = b
    ELSE IF Len(a.spans) # Len(b.spans) THEN FALSE
    ELSE \A i \in 1..Len(a.spans) : spansEqual(a.spans[i], b.spans[i])

\* the record pushed without the fallback to the empty line
ChangeAt_NoFallback(next, i) == [index |-> i, line |-> At(next, i)]

\* the record pushed for index i
ChangeAt(next, i) ==
    [index |-> i, line |-> IF At(next, i) = Undefined THEN EmptyLine ELSE At(next, i)]

RECURSIVE diffLoop(_, _, _, _)
diffLoop(prev, next, i, changes) ==
    IF i >= Max(Len(prev), Len(next)) THEN changes
    ELSE diffLoop(prev, next, i + 1,
                  IF ~linesEqual(At(prev, i), At(next, i))
                  THEN Append(changes, ChangeAt(next, i))
                  ELSE changes)

diffLines(prev, next) == diffLoop(prev, next, 0, <<>>)

\* result[index] = line on a copy of the array; an index past the end leaves holes
RECURSIVE SetIndex(_, _, _)
SetIndex(result, index, line) ==
    IF index + 1 <= Len(result) THEN [result EXCEPT ![index + 1] = line]
    ELSE IF index = Len(result) THEN Append(result, line)
    ELSE SetIndex(Append(result, Undefined), index, line)

RECURSIVE applyLoop(_, _, _)
applyLoop(result, changes, k) ==
    IF k > Len(changes) THEN result
    ELSE applyLoop(SetIndex(result, changes[k].index, changes[k].line), changes, k + 1)

applyDiff(lines, changes) == applyLoop(lines, changes, 1)

(***************************************************************************)
(* State                                                                   *)
(***************************************************************************)
VARIABLES
    \* createSession closure (session.ts)
    testRenderer,      \* TRUE once createTestRenderer has resolved (non-null)
    currentCols,
    currentRows,
    lastLines,
    lastCursor,
    cleanup,           \* TRUE when onConnection returned a cleanup callback
    rendering,
    pendingRender,
    renderInterval,    \* TRUE while the setInterval timer is registered
    destroyed,
    initialized,
    \* positions of the asynchronous functions
    initPc,            \* "idle" | "awaitCreate" | "done" | "failed"
    initArgs,          \* <<cols, rows>> given to createTestRenderer
    ticksInFlight,     \* tick bodies suspended in renderOnce
    \* the renderer behind the facade
    rSize,             \* <<width, height>> of the renderer
    rendererDestroys,  \* calls of renderer.destroy()
    \* the browser (client/connect.ts, client/canvas-renderer.ts)
    clientLines,
    clientCursor,
    \* observers
    finished,          \* the last step ran a tick to the end of its finally block
    emitted,           \* messages passed to send by the last step, in order
    captured,          \* <<data>> when the last step captured a frame
    followUps,         \* tick() calls made by the finally block of the last step
    reqDuringRun,      \* tick requests coalesced into the running tick
    coalesced,         \* requests the tick finished by the last step had coalesced
    destroyAgain,      \* destroy() was called on a destroyed session
    answered,          \* the resizeReq a frame sent by the last step answers
    cleanupError,      \* "swallowed" | "propagated" when cleanup threw in the last step, else "none"
    sendFails,         \* the channel behind send is closed: every write throws
    writeFailed,       \* a write of the last step threw
    wheel,             \* wheel events the last step injected: how many, which direction
    keyOutcome,        \* "injected" | "ignored" | "dropped" when the last step handled an input message
    onConnectionCalls,
    cleanupReturned,   \* onConnection returned a cleanup callback
    cleanupCalls,
    registered,        \* SessionManager.sessions holds the entry of this session
    initError,         \* what became of a rejection of createTestRenderer: "none" | "unhandled"
    needFull,          \* no frame sent yet since the start or since the last handled resize
    resizeReq,         \* the last handled resize not yet followed by a frame
    \* the differ exercised on its own
    dPc, dPrev, dNext, dChanges, dResult,
    \* one connection of the server multiplexer (opentuiWebSocket) and the
    \* SessionManager behind it
    openPc,            \* "idle" | "awaitCreate" | "done" | "failed": the open handler
    wsSessionId,       \* ws.data.sessionId
    pendingMessages,   \* ws.data.pendingMessages
    wsClosed,          \* the close handler ran
    sessions,          \* ids in SessionManager.sessions
    liveSessions,      \* ids of the sessions created and not destroyed
    handled,           \* frames whose message was handed to the session, in order
    arrived,           \* frames received by the message handler, in order
    frameFate,         \* what the last step did with a frame: "handled" | "queued" | "dropped"
    \* connectTunnel: the closure state of one call and the handlers of the process
    tWs,               \* the socket: "connecting" | "open" | "closing" | "closed"
    tWsRef,            \* the variable ws is not null
    tSession,          \* the variable session is not null
    tIsConnected,      \* isConnected
    tPingInterval,     \* pingInterval is not null
    tOpenPc,           \* "idle" | "awaitCreate" | "done": the onopen handler
    tPromise,          \* the promise of connectTunnel: "pending" | "resolved" | "rejected:<error>"
    tCreated,          \* sessions created by onopen
    tDestroyed,        \* session.destroy() calls
    tOnDisconnect,     \* onDisconnect calls
    tOnError,          \* errors passed to onError, in order
    tHandled,          \* messages passed to session.handleMessage, in order
    tArrived,          \* messages received by onmessage, in order
    tHostClosed,       \* disconnect() called ws.close
    sigintHandlers,    \* listeners registered with process.on("SIGINT")
    sigtermHandlers,   \* listeners registered with process.on("SIGTERM")
    \* one MultiplexerConnection in the browser, and a terminal attached to it
    cWs,               \* this.ws: the number of a socket, 0 for null
    cConnected,        \* this._connected
    chan,              \* the sockets created by connect(): "none" | "connecting" | "open" | "closing" | "closed"
    cListeners,        \* this.listeners, in insertion order
    cIdListeners,      \* this.idListeners: per id, whether the entry exists and its set in insertion order
    cHandles,          \* the unsubscribe handles returned so far, with the number of their calls
    cDelivered,        \* the listener calls of the last step, in order
    termAttached,      \* connectTerminal ran for termId
    initialResizeSent, \* initialResizeSent of that terminal
    cWritten           \* the envelopes written by send(), in order

sessVars == <<testRenderer, currentCols, currentRows, lastLines, lastCursor, cleanup,
              rendering, pendingRender, renderInterval, destroyed, initialized,
              initPc, initArgs, ticksInFlight, rSize, rendererDestroys,
              clientLines, clientCursor, finished, emitted, captured, followUps,
              reqDuringRun, coalesced, destroyAgain, answered, onConnectionCalls, cleanupReturned, cleanupCalls,
              needFull, resizeReq, keyOutcome, registered, initError,
              cleanupError, sendFails, writeFailed, wheel>>

diffVars == <<dPc, dPrev, dNext, dChanges, dResult>>

muxVars == <<openPc, wsSessionId, pendingMessages, wsClosed, sessions, liveSessions,
             handled, arrived, frameFate>>

tunVars == <<tWs, tWsRef, tSession, tIsConnected, tPingInterval, tOpenPc, tPromise,
             tCreated, tDestroyed, tOnDisconnect, tOnError, tHandled, tArrived,
             tHostClosed, sigintHandlers, sigtermHandlers>>

cliVars == <<cWs, cConnected, chan, cListeners, cIdListeners, cHandles, cDelivered,
             termAttached, initialResizeSent, cWritten>>

vars == <<sessVars, diffVars, muxVars, tunVars, cliVars>>

\* lastCursor = null
NullCursor == [x |-> -1, y |-> -1, visible |-> FALSE]
NoSize == <<0, 0>>
\* no resize waits for its frame
NoReq == [cols |-> 0, rows |-> 0, during |-> FALSE]

Cursors ==
    {[x |-> 1, y |-> 1, visible |-> FALSE],
     [x |-> 1, y |-> 1, visible |-> TRUE],
     [x |-> 2, y |-> 1, visible |-> TRUE]}

\* sizes asked by resize messages: the widest allowed width and one past it,
\* every height up to one past the tallest allowed
ResizeCols == {maxCols, maxCols + 1}
ResizeRows == 1..(maxRows + 1)

\* no mockMouse.scroll call
NoWheel == [count |-> 0, direction |-> "none"]

\* Math.min(Math.abs(message.lines), 50)
ScrollCap == 50

\* lines of the scroll messages: upwards past the cap, zero, downwards below it
ScrollLines == {-(ScrollCap + 1), 0, 2}

\* actions and buttons of the mouse messages: a press and the legacy scroll
\* form, the left button and the two buttons that encode scroll up and down
MouseActions == {"down", "scroll"}
MouseButtons == {0, 4, 5}

\* what captureSpans returns for a renderer of the given size
Frames(size) ==
    {[cols |-> size[1], rows |-> size[2], cursor |-> <<c.x, c.y>>,
      cursorVisible |-> c.visible, lines |-> l] :
        c \in Cursors, l \in SeqsOfLen(FrameLineSet, size[2])}

\* the session as one value
S == [testRenderer |-> testRenderer, currentCols |-> currentCols,
      currentRows |-> currentRows, lastLines |-> lastLines, lastCursor |-> lastCursor,
      cleanup |-> cleanup, rendering |-> rendering, pendingRender |-> pendingRender,
      renderInterval |-> renderInterval, destroyed |-> destroyed,
      initialized |-> initialized, initPc |-> initPc, initArgs |-> initArgs,
      ticksInFlight |-> ticksInFlight, rSize |-> rSize,
      rendererDestroys |-> rendererDestroys, clientLines |-> clientLines,
      clientCursor |-> clientCursor, emitted |-> <<>>, captured |-> <<>>,
      followUps |-> 0, reqDuringRun |-> reqDuringRun, coalesced |-> 0,
      destroyAgain |-> destroyAgain, finished |-> FALSE,
      onConnectionCalls |-> onConnectionCalls, cleanupReturned |-> cleanupReturned,
      cleanupCalls |-> cleanupCalls, keyOutcome |-> "none",
      registered |-> registered, initError |-> initError,
      cleanupError |-> "none", sendFails |-> sendFails, writeFailed |-> FALSE,
      wheel |-> NoWheel]

IsFrame(m) == m.type \in {"full", "diff"}
FrameMsgs(msgs) == SelectSeq(msgs, IsFrame)

(***************************************************************************)
(* The browser: connectTerminal.handleMessage and the renderer it drives   *)
(***************************************************************************)
\* CanvasRenderer.renderFull: every line of the snapshot replaces the text layer
renderFull(c, data) ==
    [lines |-> data.lines,
     cursor |-> [x |-> data.cursor[1], y |-> data.cursor[2], visible |-> data.cursorVisible]]

\* CanvasRenderer.applyDiff: each change repaints its line, adding rows up to its index
RECURSIVE rendererApplyDiff(_, _, _)
rendererApplyDiff(lines, changes, k) ==
    IF k > Len(changes) THEN lines
    ELSE rendererApplyDiff(SetIndex(lines, changes[k].index, changes[k].line), changes, k + 1)

clientHandleMessage(c, m) ==
    IF m.type = "full" THEN renderFull(c, m.data)
    ELSE IF m.type = "diff" THEN [c EXCEPT !.lines = rendererApplyDiff(c.lines, m.changes, 1)]
    ELSE IF m.type = "cursor" THEN
        [c EXCEPT !.cursor = [x |-> m.x, y |-> m.y, visible |-> m.visible]]
    ELSE c

(***************************************************************************)
(* session.ts: createSession                                               *)
(***************************************************************************)
\* send(message); the message reaches the browser in emission order
\* when send throws, the catch block logs and the message is lost
sendMessage(s, m) ==
    LET c == clientHandleMessage([lines |-> s.clientLines, cursor |-> s.clientCursor], m)
    IN IF s.sendFails
       THEN [s EXCEPT !.writeFailed = TRUE]
       ELSE [s EXCEPT !.emitted = Append(@, m),
                      !.clientLines = c.lines,
                      !.clientCursor = c.cursor]

\* tick() without the rendering check
tick_NoSingleFlight(s) ==
    IF s.destroyed \/ ~s.testRenderer THEN s
    ELSE [s EXCEPT !.rendering = TRUE, !.ticksInFlight = @ + 1]

\* tick(), up to its await of renderOnce
tick(s) ==
    IF s.destroyed \/ ~s.testRenderer THEN s
    ELSE IF s.rendering
         THEN [s EXCEPT !.pendingRender = TRUE,
                        !.reqDuringRun = Min(@ + 1, ReqCap)]
         ELSE [s EXCEPT !.rendering = TRUE,
                        !.ticksInFlight = @ + 1]

\* the threshold with >= in place of >
OverThreshold_AtLeast(nChanges, nLines) == 2 * nChanges >= nLines

\* changes.length > data.lines.length * 0.5
OverThreshold(nChanges, nLines) == 2 * nChanges > nLines

CursorOf(data) ==
    [x |-> data.cursor[1], y |-> data.cursor[2], visible |-> data.cursorVisible]

\* the comparison without the x coordinate
CursorDiffers_IgnoreX(last, cursor) ==
    \/ last = NullCursor
    \/ last.y # cursor.y
    \/ last.visible # cursor.visible

CursorDiffers(last, cursor) ==
    \/ last = NullCursor
    \/ last.x # cursor.x
    \/ last.y # cursor.y
    \/ last.visible # cursor.visible

FullMsg(data) == [type |-> "full", data |-> data]
DiffMsg(changes) == [type |-> "diff", changes |-> changes]
CursorMsg(cursor) ==
    [type |-> "cursor", x |-> cursor.x, y |-> cursor.y, visible |-> cursor.visible]

\* a resize that keeps lastLines
LinesAfterResize_Keep(lines) == lines

\* lastLines after a resize of an initialized session
LinesAfterResize(lines) == <<>>

\* lastLines not updated after the send
LinesAfterSend_Stale(lines, data) == lines

\* lastLines after a frame-bearing message was sent
LinesAfterSend(lines, data) == data.lines

\* the frame-bearing part of the try block, lastLines not empty
tickFrame(s, data) ==
    LET changes == diffLines(s.lastLines, data.lines)
    IN IF Len(changes) > 0
       THEN [sendMessage(s, IF OverThreshold(Len(changes), Len(data.lines))
                            THEN FullMsg(data)
                            ELSE DiffMsg(changes))
               EXCEPT !.lastLines = LinesAfterSend(s.lastLines, data)]
       ELSE s

\* the cursor part of the try block
tickCursor(s, cursor) ==
    IF CursorDiffers(s.lastCursor, cursor)
    THEN [sendMessage(s, CursorMsg(cursor)) EXCEPT !.lastCursor = cursor]
    ELSE s

\* the try block after renderOnce has resolved
tickTry(s, data) ==
    LET s0 == [s EXCEPT !.captured = <<data>>]
        cursor == CursorOf(data)
    IN IF Len(s0.lastLines) = 0
       THEN [sendMessage(s0, FullMsg(data))
               EXCEPT !.lastLines = data.lines, !.lastCursor = cursor]
       ELSE tickCursor(tickFrame(s0, data), cursor)

\* values renderOnce or captureSpans throw: an Error object and a bare string
Thrown == {[kind |-> "Error", message |-> "render failed"],
           [kind |-> "string", message |-> "capture failed"]}

\* String(error): "Error: " before the message of an Error, a string as it is
StringOf(error) ==
    IF error.kind = "string" THEN error.message
    ELSE IF error.message = "render failed" THEN "Error: render failed"
    ELSE "Error"

\* a catch block that also forgets the last frame
tickCatch_ForgetLines(s, error) ==
    [sendMessage(s, [type |-> "error", message |-> StringOf(error)])
       EXCEPT !.lastLines = <<>>]

\* the catch block
tickCatch(s, error) == sendMessage(s, [type |-> "error", message |-> StringOf(error)])

\* a finally block that forgets the pending request
tickFinally_NoRetick(s) ==
    [s EXCEPT !.rendering = FALSE, !.ticksInFlight = @ - 1,
              !.coalesced = s.reqDuringRun, !.reqDuringRun = 0,
              !.finished = TRUE, !.pendingRender = FALSE]

\* a finally block that clears rendering and leaves the pending request alone
tickFinally_LeavePending(s) ==
    [s EXCEPT !.rendering = FALSE, !.ticksInFlight = @ - 1,
              !.coalesced = s.reqDuringRun, !.reqDuringRun = 0,
              !.finished = TRUE]

\* the finally block
tickFinally(s) ==
    LET s1 == [s EXCEPT !.rendering = FALSE, !.ticksInFlight = @ - 1,
                        !.coalesced = s.reqDuringRun, !.reqDuringRun = 0,
                        !.finished = TRUE]
    IN IF s1.pendingRender
       THEN tick([s1 EXCEPT !.pendingRender = FALSE, !.followUps = @ + 1])
       ELSE s1

\* initialize(cols, rows), up to its await of createTestRenderer
initialize(s, cols, rows) ==
    IF s.initialized \/ s.destroyed THEN s
    ELSE [s EXCEPT !.initialized = TRUE,
                   !.currentCols = cols,
                   !.currentRows = rows,
                   !.initArgs = <<cols, rows>>,
                   !.initPc = "awaitCreate"]

\* initialize, after createTestRenderer has resolved
initializeRest(s, userCleanup) ==
    tick([s EXCEPT !.testRenderer = TRUE,
                   !.rSize = s.initArgs,
                   !.initPc = "done",
                   !.onConnectionCalls = @ + 1,
                   !.cleanupReturned = userCleanup,
                   !.cleanup = IF userCleanup THEN TRUE ELSE @,
                   !.renderInterval = TRUE])

\* initialize, when createTestRenderer rejects: nothing after the await runs
initializeFailed(s) ==
    [s EXCEPT !.initPc = "failed", !.initError = "unhandled"]

\* a resize that forwards the size of the message as it is
handleResize_NoClamp(s, cols, rows) ==
    IF s.destroyed THEN s
    ELSE IF ~s.initialized THEN initialize(s, cols, rows)
    ELSE IF s.testRenderer
         THEN tick([s EXCEPT !.rSize = <<cols, rows>>,
                             !.currentCols = cols,
                             !.currentRows = rows,
                             !.lastLines = LinesAfterResize(@)])
         ELSE s

\* handleMessage({type: "resize", cols, rows})
handleResize(s, cols, rows) ==
    LET newCols == Min(cols, maxCols)
        newRows == Min(rows, maxRows)
    IN IF s.destroyed THEN s
       ELSE IF ~s.initialized THEN initialize(s, newCols, newRows)
       ELSE IF s.testRenderer
            THEN tick([s EXCEPT !.rSize = <<newCols, newRows>>,
                                !.currentCols = newCols,
                                !.currentRows = newRows,
                                !.lastLines = LinesAfterResize(@)])
            ELSE s

\* a ping that also requests a tick
handlePing_Tick(s) ==
    IF s.destroyed THEN s ELSE tick(sendMessage(s, [type |-> "pong"]))

\* handleMessage({type: "ping"})
handlePing(s) ==
    IF s.destroyed THEN s ELSE sendMessage(s, [type |-> "pong"])

\* a key handled without the check that the renderer exists
handleKey_NoRendererCheck(s) ==
    IF s.destroyed THEN s
    ELSE tick([s EXCEPT !.keyOutcome = "injected"])

\* handleMessage({type: "key", ...}): pressKey, then tick
handleKey(s) ==
    IF s.destroyed THEN s
    ELSE IF ~s.testRenderer THEN [s EXCEPT !.keyOutcome = "dropped"]
    ELSE tick([s EXCEPT !.keyOutcome = "injected"])

Abs(n) == IF n < 0 THEN -n ELSE n

\* a scroll that injects one wheel event per line, however many
handleScroll_NoCap(s, lines) ==
    IF s.destroyed THEN s
    ELSE IF ~s.testRenderer THEN [s EXCEPT !.keyOutcome = "dropped"]
    ELSE tick([s EXCEPT !.wheel = [count |-> Abs(lines),
                                   direction |-> IF Abs(lines) = 0 THEN "none"
                                                 ELSE IF lines > 0 THEN "down" ELSE "up"]])

\* handleMessage({type: "scroll", x, y, lines}): count calls of
\* mockMouse.scroll(x, y, direction), then tick
handleScroll(s, lines) ==
    LET direction == IF lines > 0 THEN "down" ELSE "up"
        count == Min(Abs(lines), ScrollCap)
    IN IF s.destroyed THEN s
       ELSE IF ~s.testRenderer THEN [s EXCEPT !.keyOutcome = "dropped"]
       ELSE tick([s EXCEPT !.wheel = IF count = 0 THEN NoWheel
                                     ELSE [count |-> count, direction |-> direction]])

\* handleMessage({type: "mouse", action, x, y, button}): down, up and move reach
\* mockMouse, any other action matches no case; then tick
handleMouse(s, action, button) ==
    IF s.destroyed THEN s
    ELSE IF ~s.testRenderer THEN [s EXCEPT !.keyOutcome = "dropped"]
    ELSE IF action \in {"down", "up", "move"}
         THEN tick([s EXCEPT !.keyOutcome = "injected"])
         ELSE tick([s EXCEPT !.keyOutcome = "ignored"])

RECURSIVE destroy(_, _, _)

\* destroy() without the destroyed check
destroy_NoGuard(s, closeInCleanup, cleanupThrows) ==
    LET s1 == [s EXCEPT !.destroyed = TRUE, !.renderInterval = FALSE,
                        !.destroyAgain = s.destroyed]
        s2 == IF s1.cleanup
              THEN LET c == [s1 EXCEPT !.cleanupCalls = @ + 1]
                       c2 == IF closeInCleanup THEN destroy(c, FALSE, FALSE) ELSE c
                   IN IF cleanupThrows THEN [c2 EXCEPT !.cleanupError = "swallowed"]
                      ELSE c2
              ELSE s1
    IN IF s2.testRenderer
       THEN [s2 EXCEPT !.rendererDestroys = @ + 1]
       ELSE s2

\* destroy() without the try/catch around cleanup()
destroy_NoCatch(s, closeInCleanup, cleanupThrows) ==
    IF s.destroyed THEN [s EXCEPT !.destroyAgain = TRUE]
    ELSE LET s1 == [s EXCEPT !.destroyed = TRUE, !.renderInterval = FALSE]
             c == [s1 EXCEPT !.cleanupCalls = @ + 1]
             c2 == IF closeInCleanup THEN destroy(c, FALSE, FALSE) ELSE c
         IN IF s1.cleanup /\ cleanupThrows
            THEN [c2 EXCEPT !.cleanupError = "propagated"]
            ELSE LET s2 == IF s1.cleanup THEN c2 ELSE s1
                 IN IF s2.testRenderer
                    THEN [s2 EXCEPT !.rendererDestroys = @ + 1]
                    ELSE s2

\* destroy(); closeInCleanup: the cleanup callback calls session.close(),
\* which calls destroy() again before cleanup returns; cleanupThrows: the
\* cleanup callback ends by throwing
destroy(s, closeInCleanup, cleanupThrows) ==
    IF s.destroyed THEN [s EXCEPT !.destroyAgain = TRUE]
    ELSE LET s1 == [s EXCEPT !.destroyed = TRUE, !.renderInterval = FALSE]
             s2 == IF s1.cleanup
                   THEN LET c == [s1 EXCEPT !.cleanupCalls = @ + 1]
                            c2 == IF closeInCleanup THEN destroy(c, FALSE, FALSE) ELSE c
                        IN IF cleanupThrows
                           THEN [c2 EXCEPT !.cleanupError = "swallowed"]
                           ELSE c2
                   ELSE s1
         IN IF s2.testRenderer
            THEN [s2 EXCEPT !.rendererDestroys = @ + 1]
            ELSE s2

(***************************************************************************)
(* Actions                                                                 *)
(***************************************************************************)
Commit(result) ==
    \E t \in {result} :
    /\ testRenderer' = t.testRenderer
    /\ currentCols' = t.currentCols
    /\ currentRows' = t.currentRows
    /\ lastLines' = t.lastLines
    /\ lastCursor' = t.lastCursor
    /\ cleanup' = t.cleanup
    /\ rendering' = t.rendering
    /\ pendingRender' = t.pendingRender
    /\ renderInterval' = t.renderInterval
    /\ destroyed' = t.destroyed
    /\ initialized' = t.initialized
    /\ initPc' = t.initPc
    /\ initArgs' = t.initArgs
    /\ ticksInFlight' = t.ticksInFlight
    /\ rSize' = t.rSize
    /\ rendererDestroys' = t.rendererDestroys
    /\ clientLines' = t.clientLines
    /\ clientCursor' = t.clientCursor
    /\ finished' = t.finished
    /\ emitted' = t.emitted
    /\ captured' = t.captured
    /\ followUps' = t.followUps
    /\ reqDuringRun' = t.reqDuringRun
    /\ coalesced' = t.coalesced
    /\ destroyAgain' = t.destroyAgain
    /\ onConnectionCalls' = t.onConnectionCalls
    /\ cleanupReturned' = t.cleanupReturned
    /\ cleanupCalls' = t.cleanupCalls
    /\ registered' = t.registered
    /\ initError' = t.initError
    /\ keyOutcome' = t.keyOutcome
    /\ cleanupError' = t.cleanupError
    /\ sendFails' = t.sendFails
    /\ writeFailed' = t.writeFailed
    /\ wheel' = t.wheel
    /\ needFull' = IF FrameMsgs(t.emitted) # <<>> THEN FALSE ELSE needFull
    /\ resizeReq' = IF FrameMsgs(t.emitted) # <<>> THEN NoReq ELSE resizeReq
    /\ answered' = IF FrameMsgs(t.emitted) # <<>> THEN resizeReq ELSE NoReq
    /\ UNCHANGED <<diffVars, muxVars, tunVars, cliVars>>

\* a resize message arrives
HandleResize(cols, rows) ==
    \E t \in {handleResize(S, cols, rows)} :
       /\ testRenderer' = t.testRenderer
       /\ currentCols' = t.currentCols
       /\ currentRows' = t.currentRows
       /\ lastLines' = t.lastLines
       /\ lastCursor' = t.lastCursor
       /\ cleanup' = t.cleanup
       /\ rendering' = t.rendering
       /\ pendingRender' = t.pendingRender
       /\ renderInterval' = t.renderInterval
       /\ destroyed' = t.destroyed
       /\ initialized' = t.initialized
       /\ initPc' = t.initPc
       /\ initArgs' = t.initArgs
       /\ ticksInFlight' = t.ticksInFlight
       /\ rSize' = t.rSize
       /\ rendererDestroys' = t.rendererDestroys
       /\ clientLines' = t.clientLines
       /\ clientCursor' = t.clientCursor
       /\ finished' = t.finished
       /\ emitted' = t.emitted
       /\ captured' = t.captured
       /\ followUps' = t.followUps
       /\ reqDuringRun' = t.reqDuringRun
       /\ coalesced' = t.coalesced
       /\ destroyAgain' = t.destroyAgain
       /\ onConnectionCalls' = t.onConnectionCalls
       /\ cleanupReturned' = t.cleanupReturned
       /\ cleanupCalls' = t.cleanupCalls
       /\ registered' = t.registered
       /\ initError' = t.initError
       /\ keyOutcome' = t.keyOutcome
       /\ cleanupError' = t.cleanupError
       /\ sendFails' = t.sendFails
       /\ writeFailed' = t.writeFailed
       /\ wheel' = t.wheel
       /\ needFull' = IF destroyed THEN needFull ELSE TRUE
       /\ resizeReq' = IF destroyed THEN resizeReq
                       ELSE IF cols <= maxCols /\ rows <= maxRows
                            THEN [cols |-> cols, rows |-> rows, during |-> rendering]
                            ELSE NoReq
       /\ answered' = NoReq
       /\ UNCHANGED <<diffVars, muxVars, tunVars, cliVars>>

\* a ping message arrives
HandlePing == Commit(handlePing(S))

\* a key message arrives
HandleKey == Commit(handleKey(S))

\* a scroll message arrives
HandleScroll(lines) == Commit(handleScroll(S, lines))

\* a mouse message arrives
HandleMouse(action, button) == Commit(handleMouse(S, action, button))

\* the interval timer fires
IntervalTick ==
    /\ renderInterval
    /\ Commit(tick(S))

\* createTestRenderer resolves
InitializeResume(userCleanup) ==
    /\ initPc = "awaitCreate"
    /\ Commit(initializeRest(S, userCleanup))

\* renderOnce resolves and captureSpans returns data
TickRendered(data) ==
    /\ ticksInFlight > 0
    /\ Commit(tickFinally(tickTry(S, data)))

\* renderOnce or captureSpans throws
TickThrows(error) ==
    /\ ticksInFlight > 0
    /\ Commit(tickFinally(tickCatch(S, error)))

\* the owner of the session destroys it: SessionManager.destroySession calls
\* destroy() and deletes the entry
Destroy(closeInCleanup, cleanupThrows) ==
    Commit([destroy(S, closeInCleanup, cleanupThrows) EXCEPT !.registered = FALSE])

\* createTestRenderer rejects: the promise of initialize, which handleMessage
\* neither awaits nor catches, rejects
InitializeFails ==
    /\ initPc = "awaitCreate"
    /\ Commit(initializeFailed(S))

\* the channel behind send closes: ws.send throws from now on
ChannelFails ==
    /\ ~sendFails
    /\ Commit([S EXCEPT !.sendFails = TRUE])

InitSession ==
    /\ testRenderer = FALSE
    /\ currentCols = 0
    /\ currentRows = 0
    /\ lastLines = <<>>
    /\ lastCursor = NullCursor
    /\ cleanup = FALSE
    /\ rendering = FALSE
    /\ pendingRender = FALSE
    /\ renderInterval = FALSE
    /\ destroyed = FALSE
    /\ initialized = FALSE
    /\ initPc = "idle"
    /\ initArgs = NoSize
    /\ ticksInFlight = 0
    /\ rSize = NoSize
    /\ rendererDestroys = 0
    /\ clientLines = <<>>
    /\ clientCursor = NullCursor
    /\ finished = FALSE
    /\ emitted = <<>>
    /\ captured = <<>>
    /\ followUps = 0
    /\ reqDuringRun = 0
    /\ coalesced = 0
    /\ destroyAgain = FALSE
    /\ answered = NoReq
    /\ onConnectionCalls = 0
    /\ cleanupReturned = FALSE
    /\ cleanupCalls = 0
    /\ registered = TRUE
    /\ initError = "none"
    /\ keyOutcome = "none"
    /\ cleanupError = "none"
    /\ sendFails = FALSE
    /\ writeFailed = FALSE
    /\ wheel = NoWheel
    /\ needFull = TRUE
    /\ resizeReq = NoReq

DiffIdle ==
    /\ dPc = "off"
    /\ dPrev = <<>>
    /\ dNext = <<>>
    /\ dChanges = <<>>
    /\ dResult = <<>>

\* ws.data.sessionId before createSession resolved, and crypto.randomUUID()
NoSessionId == ""
NewSessionId == "s1"

\* the connection before Bun calls the open handler
MuxIdle ==
    /\ openPc = "idle"
    /\ wsSessionId = NoSessionId
    /\ pendingMessages = <<>>
    /\ wsClosed = FALSE
    /\ sessions = {}
    /\ liveSessions = {}
    /\ handled = <<>>
    /\ arrived = <<>>
    /\ frameFate = "none"

\* connectTunnel has returned its promise: the socket is connecting and the
\* two signal handlers of this call are registered
TunnelIdle ==
    /\ tWs = "connecting"
    /\ tWsRef = TRUE
    /\ tSession = FALSE
    /\ tIsConnected = FALSE
    /\ tPingInterval = FALSE
    /\ tOpenPc = "idle"
    /\ tPromise = "pending"
    /\ tCreated = 0
    /\ tDestroyed = 0
    /\ tOnDisconnect = 0
    /\ tOnError = <<>>
    /\ tHandled = <<>>
    /\ tArrived = <<>>
    /\ tHostClosed = FALSE
    /\ sigintHandlers = 1
    /\ sigtermHandlers = 1

\* the ids of the terminals a viewer subscribes to
ClientIds == {"t1", "t2"}

\* a MultiplexerConnection after its constructor
ClientIdle ==
    /\ cWs = 0
    /\ cConnected = FALSE
    /\ chan = [n \in 1..MaxChannels |-> "none"]
    /\ cListeners = <<>>
    /\ cIdListeners = [id \in ClientIds |-> [present |-> FALSE, fns |-> <<>>]]
    /\ cHandles = <<>>
    /\ cDelivered = <<>>
    /\ termAttached = FALSE
    /\ initialResizeSent = FALSE
    /\ cWritten = <<>>

Init == InitSession /\ DiffIdle /\ MuxIdle /\ TunnelIdle /\ ClientIdle

Next ==
    \/ \E cols \in ResizeCols, rows \in ResizeRows : HandleResize(cols, rows)
    \/ HandlePing
    \/ HandleKey
    \/ IntervalTick
    \/ \E userCleanup \in BOOLEAN : InitializeResume(userCleanup)
    \/ InitializeFails
    \/ \E data \in Frames(rSize) : TickRendered(data)
    \/ \E error \in Thrown : TickThrows(error)
    \/ \E closeInCleanup \in BOOLEAN, cleanupThrows \in BOOLEAN :
          Destroy(closeInCleanup, cleanupThrows)

Spec == Init /\ [][Next]_vars

\* renderOnce returns: the suspended tick resumes, with a frame or with an error
TickReturns ==
    \/ \E data \in Frames(rSize) : TickRendered(data)
    \/ \E error \in Thrown : TickThrows(error)

\* the session driven with one message of each kind and a terminal one row
\* high, for the scheduling of ticks
NextLive ==
    \/ HandleResize(maxCols, 1)
    \/ HandleKey
    \/ HandleScroll(2)
    \/ HandleMouse("down", 0)
    \/ IntervalTick
    \/ InitializeResume(FALSE)
    \/ TickReturns
    \/ Destroy(FALSE, FALSE)

\* the session when every renderOnce call returns
SpecLive == Init /\ [][NextLive]_vars /\ WF_vars(TickReturns)

\* the session driven with every scroll and mouse message and a terminal one
\* row high, for the input handlers
NextInput ==
    \/ HandleResize(maxCols, 1)
    \/ HandleKey
    \/ \E lines \in ScrollLines : HandleScroll(lines)
    \/ \E action \in MouseActions, button \in MouseButtons : HandleMouse(action, button)
    \/ IntervalTick
    \/ InitializeResume(FALSE)
    \/ TickReturns
    \/ Destroy(FALSE, FALSE)

SpecInput == Init /\ [][NextInput]_vars

\* the session on a channel that can close under it
NextChannel == Next \/ ChannelFails

SpecChannel == Init /\ [][NextChannel]_vars

(***************************************************************************)
(* The differ on its own                                                   *)
(***************************************************************************)
DoDiff ==
    /\ dPc = "start"
    /\ dChanges' = diffLines(dPrev, dNext)
    /\ dPc' = "diffed"
    /\ UNCHANGED <<dPrev, dNext, dResult, sessVars, muxVars, tunVars, cliVars>>

DoApply ==
    /\ dPc = "diffed"
    /\ dResult' = applyDiff(dPrev, dChanges)
    /\ dPc' = "applied"
    /\ UNCHANGED <<dPrev, dNext, dChanges, sessVars, muxVars, tunVars, cliVars>>

InitDiff ==
    /\ InitSession
    /\ MuxIdle
    /\ TunnelIdle
    /\ ClientIdle
    /\ dPc = "start"
    /\ dPrev \in SeqsUpTo(DiffLineSet, MaxLen)
    /\ dNext \in SeqsUpTo(DiffLineSet, MaxLen)
    /\ dChanges = <<>>
    /\ dResult = <<>>

NextDiff == DoDiff \/ DoApply

SpecDiff == InitDiff /\ [][NextDiff]_vars

(***************************************************************************)
(* applyDiff on change lists of any shape                                  *)
(***************************************************************************)
\* a LineDiff: an index up to one past the longest array and a line
LineDiffs == [index : 0..MaxLen, line : DiffLineSet]

\* lists of at most two changes that name different indices
ChangeLists ==
    {<<>>} \cup {<<c>> : c \in LineDiffs}
           \cup {p \in LineDiffs \X LineDiffs : p[1].index # p[2].index}

DoApplyDiff ==
    /\ dPc = "apply"
    /\ dResult' = applyDiff(dPrev, dChanges)
    /\ dPc' = "applyDone"
    /\ UNCHANGED <<dPrev, dNext, dChanges, sessVars, muxVars, tunVars, cliVars>>

InitApply ==
    /\ InitSession
    /\ MuxIdle
    /\ TunnelIdle
    /\ ClientIdle
    /\ dPc = "apply"
    /\ dPrev \in SeqsUpTo(DiffLineSet, MaxLen - 1)
    /\ dNext = <<>>
    /\ dChanges \in ChangeLists
    /\ dResult = <<>>

NextApply == DoApplyDiff

SpecApply == InitApply /\ [][NextApply]_vars

(***************************************************************************)
(* The server multiplexer endpoint: opentuiWebSocket's websocket handlers  *)
(* over the SessionManager whose createSession awaits the renderer         *)
(***************************************************************************)
\* ws.data.tunnelId, and an id some other connection is bound to
tunnelId == "t1"
otherId == "t2"

\* the frames a peer can write: text that is not JSON, a lifecycle event (no
\* data field), an envelope for another id, and envelopes for this tunnel whose
\* data string is a client message or is not JSON
FrameShapes ==
    { [parses |-> FALSE, hasData |-> FALSE, id |-> tunnelId, data |-> "none"],
      [parses |-> TRUE, hasData |-> FALSE, id |-> tunnelId, data |-> "none"],
      [parses |-> TRUE, hasData |-> TRUE, id |-> otherId, data |-> "key"],
      [parses |-> TRUE, hasData |-> TRUE, id |-> tunnelId, data |-> "key"],
      [parses |-> TRUE, hasData |-> TRUE, id |-> tunnelId, data |-> "garbage"] }

\* the n-th frame of the connection
Frame(shape, n) ==
    [parses |-> shape.parses, hasData |-> shape.hasData, id |-> shape.id,
     data |-> shape.data, n |-> n]

\* multiplexed.data, the string the envelope carries
DataOf(frame) == [data |-> frame.data, n |-> frame.n]

\* JSON.parse(data) returns
DataParses(d) == d.data # "garbage"

M == [openPc |-> openPc, wsSessionId |-> wsSessionId,
      pendingMessages |-> pendingMessages, wsClosed |-> wsClosed,
      sessions |-> sessions, liveSessions |-> liveSessions,
      handled |-> handled, arrived |-> arrived, frameFate |-> "none"]

\* SessionManager.handleMessage(sessionId, message)
managerHandleMessage(m, sessionId, message) ==
    IF sessionId \notin m.sessions THEN m
    ELSE [m EXCEPT !.handled = Append(@, message)]

\* SessionManager.destroySession(sessionId)
destroySession(m, sessionId) ==
    IF sessionId \notin m.sessions THEN m
    ELSE [m EXCEPT !.liveSessions = @ \ {sessionId},
                   !.sessions = @ \ {sessionId}]

\* a replay that takes the newest pending message first
RECURSIVE replay_NewestFirst(_, _, _)
replay_NewestFirst(m, sessionId, pending) ==
    IF pending = <<>> THEN m
    ELSE LET last == pending[Len(pending)]
             m1 == IF DataParses(last) THEN managerHandleMessage(m, sessionId, last) ELSE m
         IN replay_NewestFirst(m1, sessionId, SubSeq(pending, 1, Len(pending) - 1))

\* the loop of open over ws.data.pendingMessages: parse each, hand it to the
\* manager, and go on with the next one when that throws
RECURSIVE replay(_, _, _)
replay(m, sessionId, pending) ==
    IF pending = <<>> THEN m
    ELSE LET m1 == IF DataParses(Head(pending))
                   THEN managerHandleMessage(m, sessionId, Head(pending))
                   ELSE m
         IN replay(m1, sessionId, Tail(pending))

\* open, after sessionManager.createSession resolved: the manager recorded the
\* session, open binds its id, replays the queue and empties it
openRest(m) ==
    LET m1 == [m EXCEPT !.sessions = @ \cup {NewSessionId},
                        !.liveSessions = @ \cup {NewSessionId},
                        !.wsSessionId = NewSessionId]
        m2 == replay(m1, NewSessionId, m1.pendingMessages)
    IN [m2 EXCEPT !.pendingMessages = <<>>, !.openPc = "done", !.frameFate = "replayed"]

\* a message handler that takes envelopes of any id
wsMessage_NoIdCheck(m, frame) ==
    LET m0 == [m EXCEPT !.arrived = Append(@, frame)]
        dropped == [m0 EXCEPT !.frameFate = "dropped"]
    IN IF ~frame.parses THEN dropped
       ELSE IF ~frame.hasData THEN dropped
       ELSE IF m0.wsSessionId = NoSessionId
            THEN [m0 EXCEPT !.pendingMessages = Append(@, DataOf(frame)),
                            !.frameFate = "queued"]
       ELSE IF ~DataParses(DataOf(frame)) THEN dropped
       ELSE LET m1 == managerHandleMessage(m0, m0.wsSessionId, DataOf(frame))
            IN [m1 EXCEPT !.frameFate = IF m1.handled = m0.handled THEN "dropped" ELSE "handled"]

\* a message handler that closes the connection when a parse throws
wsMessage_CloseOnError(m, frame) ==
    LET m0 == [m EXCEPT !.arrived = Append(@, frame)]
        dropped == [m0 EXCEPT !.frameFate = "dropped"]
        failed == [destroySession(m0, m0.wsSessionId) EXCEPT !.wsClosed = TRUE,
                                                              !.frameFate = "dropped"]
    IN IF ~frame.parses THEN failed
       ELSE IF ~frame.hasData THEN dropped
       ELSE IF frame.id # tunnelId THEN dropped
       ELSE IF m0.wsSessionId = NoSessionId
            THEN [m0 EXCEPT !.pendingMessages = Append(@, DataOf(frame)),
                            !.frameFate = "queued"]
       ELSE IF ~DataParses(DataOf(frame)) THEN failed
       ELSE LET m1 == managerHandleMessage(m0, m0.wsSessionId, DataOf(frame))
            IN [m1 EXCEPT !.frameFate = IF m1.handled = m0.handled THEN "dropped" ELSE "handled"]

\* websocket.message: a throw of either JSON.parse lands in the catch, which logs
wsMessage(m, frame) ==
    LET m0 == [m EXCEPT !.arrived = Append(@, frame)]
        dropped == [m0 EXCEPT !.frameFate = "dropped"]
    IN IF ~frame.parses THEN dropped
       ELSE IF ~frame.hasData THEN dropped
       ELSE IF frame.id # tunnelId THEN dropped
       ELSE IF m0.wsSessionId = NoSessionId
            THEN [m0 EXCEPT !.pendingMessages = Append(@, DataOf(frame)),
                            !.frameFate = "queued"]
       ELSE IF ~DataParses(DataOf(frame)) THEN dropped
       ELSE LET m1 == managerHandleMessage(m0, m0.wsSessionId, DataOf(frame))
            IN [m1 EXCEPT !.frameFate = IF m1.handled = m0.handled THEN "dropped" ELSE "handled"]

\* websocket.close
wsClose(m) == [destroySession(m, m.wsSessionId) EXCEPT !.wsClosed = TRUE]

CommitMux(result) ==
    \E t \in {result} :
    /\ openPc' = t.openPc
    /\ wsSessionId' = t.wsSessionId
    /\ pendingMessages' = t.pendingMessages
    /\ wsClosed' = t.wsClosed
    /\ sessions' = t.sessions
    /\ liveSessions' = t.liveSessions
    /\ handled' = t.handled
    /\ arrived' = t.arrived
    /\ frameFate' = t.frameFate
    /\ UNCHANGED <<sessVars, diffVars, tunVars, cliVars>>

\* Bun calls open, which runs up to its await of sessionManager.createSession
WsOpen ==
    /\ openPc = "idle"
    /\ CommitMux([M EXCEPT !.openPc = "awaitCreate"])

\* createTestRenderer resolves inside createSession: open resumes
CreateResolves ==
    /\ openPc = "awaitCreate"
    /\ CommitMux(openRest(M))

\* createTestRenderer rejects: createSession rejects before sessions.set and
\* the catch of open logs
CreateRejects ==
    /\ openPc = "awaitCreate"
    /\ CommitMux([M EXCEPT !.openPc = "failed"])

\* a frame arrives on the open connection
WsMessage(shape) ==
    /\ openPc # "idle"
    /\ ~wsClosed
    /\ Len(arrived) < MaxArrivals
    /\ CommitMux(wsMessage(M, Frame(shape, Len(arrived) + 1)))

\* the connection closes
WsClose ==
    /\ openPc # "idle"
    /\ ~wsClosed
    /\ CommitMux(wsClose(M))

NextMux ==
    \/ WsOpen
    \/ CreateResolves
    \/ CreateRejects
    \/ \E shape \in FrameShapes : WsMessage(shape)
    \/ WsClose

SpecMux == Init /\ [][NextMux]_vars

(***************************************************************************)
(* The tunnel client: connectTunnel (server/tunnel.ts)                     *)
(***************************************************************************)
\* the close events the relay can cause: an ordinary close, the rejection by
\* code, and the rejection by reason
RelayCloseEvents ==
    { [code |-> 1000, reason |-> ""],
      [code |-> 4009, reason |-> ""],
      [code |-> 1008, reason |-> "Upstream already connected"] }

\* the close event that ends the handshake started by ws.close(1000, "Client disconnect")
HostCloseEvent == [code |-> 1000, reason |-> "Client disconnect"]

\* event.code === 4009 || event.reason?.includes("Upstream already connected")
IsAlreadyConnected(event) ==
    event.code = 4009 \/ event.reason = "Upstream already connected"

\* what onmessage receives: a pong, two client messages, text that is not JSON
TunnelMessageTypes == {"pong", "key", "resize", "garbage"}

T == [tWs |-> tWs, tWsRef |-> tWsRef, tSession |-> tSession,
      tIsConnected |-> tIsConnected, tPingInterval |-> tPingInterval,
      tOpenPc |-> tOpenPc, tPromise |-> tPromise, tCreated |-> tCreated,
      tDestroyed |-> tDestroyed, tOnDisconnect |-> tOnDisconnect,
      tOnError |-> tOnError, tHandled |-> tHandled, tArrived |-> tArrived,
      tHostClosed |-> tHostClosed]

\* reject(error): settles the promise when it is still pending
tunnelReject(t, error) ==
    IF t.tPromise = "pending" THEN [t EXCEPT !.tPromise = error] ELSE t

\* if (session) { session.destroy(); session = null }
tunnelDropSession(t) ==
    IF t.tSession THEN [t EXCEPT !.tSession = FALSE, !.tDestroyed = @ + 1] ELSE t

\* ws.onopen, up to its await of createSession
tunnelOnOpen(t) ==
    [t EXCEPT !.tWs = "open", !.tIsConnected = TRUE, !.tOpenPc = "awaitCreate"]

\* ws.onopen, after createSession resolved
tunnelOnOpenRest(t) ==
    LET t1 == [t EXCEPT !.tSession = TRUE, !.tCreated = @ + 1,
                        !.tPingInterval = TRUE, !.tOpenPc = "done"]
    IN IF t1.tPromise = "pending" THEN [t1 EXCEPT !.tPromise = "resolved"] ELSE t1

\* ws.onmessage
tunnelOnMessage(t, msg) ==
    LET t0 == [t EXCEPT !.tArrived = Append(@, msg)]
    IN IF ~t0.tSession THEN t0
       ELSE IF msg.type = "garbage" THEN t0
       ELSE IF msg.type = "pong" THEN t0
       ELSE [t0 EXCEPT !.tHandled = Append(@, msg)]

\* an onclose that reports every close of an open channel with onDisconnect
tunnelOnClose_AlwaysDisconnect(t, event) ==
    LET wasConnected == t.tIsConnected
        t1 == tunnelDropSession([t EXCEPT !.tWs = "closed", !.tIsConnected = FALSE,
                                          !.tPingInterval = FALSE])
    IN IF wasConnected THEN [t1 EXCEPT !.tOnDisconnect = @ + 1]
       ELSE tunnelReject(t1, "rejected: closed")

\* ws.onclose
tunnelOnClose(t, event) ==
    LET wasConnected == t.tIsConnected
        t1 == tunnelDropSession([t EXCEPT !.tWs = "closed", !.tIsConnected = FALSE,
                                          !.tPingInterval = FALSE])
    IN IF IsAlreadyConnected(event)
       THEN IF ~wasConnected THEN tunnelReject(t1, "rejected: already connected")
            ELSE [t1 EXCEPT !.tOnError = Append(@, "already connected")]
       ELSE IF wasConnected THEN [t1 EXCEPT !.tOnDisconnect = @ + 1]
       ELSE tunnelReject(t1, "rejected: closed")

\* ws.onerror
tunnelOnError(t) ==
    IF ~t.tIsConnected THEN tunnelReject(t, "rejected: WebSocket error")
    ELSE [t EXCEPT !.tOnError = Append(@, "WebSocket error")]

\* disconnect()
tunnelDisconnect(t) ==
    LET t1 == tunnelDropSession([t EXCEPT !.tPingInterval = FALSE])
        t2 == IF t1.tWsRef
              THEN [t1 EXCEPT !.tWsRef = FALSE,
                              !.tHostClosed = TRUE,
                              !.tWs = IF @ \in {"connecting", "open"} THEN "closing" ELSE @]
              ELSE t1
    IN [t2 EXCEPT !.tIsConnected = FALSE]

CommitTunnel(result) ==
    \E t \in {result} :
    /\ tWs' = t.tWs
    /\ tWsRef' = t.tWsRef
    /\ tSession' = t.tSession
    /\ tIsConnected' = t.tIsConnected
    /\ tPingInterval' = t.tPingInterval
    /\ tOpenPc' = t.tOpenPc
    /\ tPromise' = t.tPromise
    /\ tCreated' = t.tCreated
    /\ tDestroyed' = t.tDestroyed
    /\ tOnDisconnect' = t.tOnDisconnect
    /\ tOnError' = t.tOnError
    /\ tHandled' = t.tHandled
    /\ tArrived' = t.tArrived
    /\ tHostClosed' = t.tHostClosed
    /\ UNCHANGED <<sigintHandlers, sigtermHandlers, sessVars, diffVars, muxVars, cliVars>>

\* the socket opens
TunnelOpen ==
    /\ tWs = "connecting"
    /\ CommitTunnel(tunnelOnOpen(T))

\* createSession resolves: onopen resumes
TunnelCreated ==
    /\ tOpenPc = "awaitCreate"
    /\ CommitTunnel(tunnelOnOpenRest(T))

\* a message arrives on the open socket
TunnelMessage(type) ==
    /\ tWs = "open"
    /\ Len(tArrived) < MaxArrivals
    /\ CommitTunnel(tunnelOnMessage(T, [type |-> type, n |-> Len(tArrived) + 1]))

\* the relay closes the socket, or refuses it
TunnelRelayClose(event) ==
    /\ tWs \in {"connecting", "open"}
    /\ CommitTunnel(tunnelOnClose(T, event))

\* the close started by disconnect() completes
TunnelHostCloseDone ==
    /\ tWs = "closing"
    /\ CommitTunnel(tunnelOnClose(T, HostCloseEvent))

\* the socket reports an error
TunnelError ==
    /\ tWs \in {"connecting", "open"}
    /\ Len(tOnError) < 1
    /\ CommitTunnel(tunnelOnError(T))

\* the host calls disconnect() of the TunnelConnection it was given
TunnelDisconnect ==
    /\ tPromise = "resolved"
    /\ CommitTunnel(tunnelDisconnect(T))

\* connectTunnel is called once more in the process: process.on(...) again
ConnectTunnelAgain ==
    /\ sigintHandlers < MaxConnects
    /\ sigintHandlers' = sigintHandlers + 1
    /\ sigtermHandlers' = sigtermHandlers + 1
    /\ UNCHANGED <<tWs, tWsRef, tSession, tIsConnected, tPingInterval, tOpenPc,
                   tPromise, tCreated, tDestroyed, tOnDisconnect, tOnError,
                   tHandled, tArrived, tHostClosed, sessVars, diffVars, muxVars, cliVars>>

NextTunnel ==
    \/ TunnelOpen
    \/ TunnelCreated
    \/ \E type \in TunnelMessageTypes : TunnelMessage(type)
    \/ \E event \in RelayCloseEvents : TunnelRelayClose(event)
    \/ TunnelHostCloseDone
    \/ TunnelError
    \/ TunnelDisconnect
    \/ ConnectTunnelAgain

SpecTunnel == Init /\ [][NextTunnel]_vars

(***************************************************************************)
(* The browser multiplexer: MultiplexerConnection (client/multiplexer.ts)  *)
(* and the terminal connectTerminal attaches to it (client/connect.ts)     *)
(***************************************************************************)
\* the id of the attached terminal
termId == "t1"

\* listener functions of the page, and the two listeners of connectTerminal
PageListeners == {"f", "g"}
NoListener == "none"

\* the frames the relay writes to a viewer: text that is not JSON, lifecycle
\* events (one of them unknown), and data envelopes whose data is a server
\* message or is not JSON
ClientFrameShapes ==
    { [parses |-> FALSE, field |-> "none", event |-> "none", id |-> "t1", data |-> "none"],
      [parses |-> TRUE, field |-> "event", event |-> "upstream_connected", id |-> "t1", data |-> "none"],
      [parses |-> TRUE, field |-> "event", event |-> "upstream_closed", id |-> "t2", data |-> "none"],
      [parses |-> TRUE, field |-> "event", event |-> "upstream_renamed", id |-> "t1", data |-> "none"],
      [parses |-> TRUE, field |-> "data", event |-> "none", id |-> "t1", data |-> "full"],
      [parses |-> TRUE, field |-> "data", event |-> "none", id |-> "t2", data |-> "garbage"] }

KnownEvents == {"upstream_closed", "upstream_connected", "upstream_discovered", "upstream_error"}

\* MultiplexerEvent values; "id" in event holds for those that carry an id
MuxEvent(type, id) == [type |-> type, id |-> id]
HasId(event) == event.type \notin {"multiplexer_connected", "multiplexer_disconnected"}

C == [cWs |-> cWs, cConnected |-> cConnected, chan |-> chan,
      cListeners |-> cListeners, cIdListeners |-> cIdListeners,
      cHandles |-> cHandles, cDelivered |-> <<>>, threw |-> FALSE,
      termAttached |-> termAttached, initialResizeSent |-> initialResizeSent,
      cWritten |-> cWritten]

\* Set.add and Set.delete on a set kept in insertion order
SetAdd(fns, fn) ==
    IF \E i \in 1..Len(fns) : fns[i] = fn THEN fns ELSE Append(fns, fn)
SetDelete(fns, fn) == SelectSeq(fns, LAMBDA x : x # fn)

\* MultiplexerConnection.send(id, message)
clientSend(c, id, type) ==
    IF c.cWs # 0 /\ c.chan[c.cWs] = "open"
    THEN [c EXCEPT !.cWritten = Append(@, [id |-> id, type |-> type])]
    ELSE c

\* sendInitialResize of connectTerminal
sendInitialResize(c) ==
    IF c.initialResizeSent THEN c
    ELSE clientSend([c EXCEPT !.initialResizeSent = TRUE], termId, "resize")

\* one listener called with an event: the page's listeners only see it, the
\* global listener of connectTerminal sends the initial resize
listenerRun(c, fn, role, event) ==
    LET c1 == [c EXCEPT !.cDelivered = Append(@, [fn |-> fn, role |-> role, event |-> event])]
    IN IF fn = "termGlobal" /\
          (event.type = "multiplexer_connected" \/
           (event.type = "upstream_connected" /\ event.id = termId))
       THEN sendInitialResize(c1)
       ELSE c1

\* for (const listener of set) listener(event), left when a listener throws
RECURSIVE deliver(_, _, _, _, _)
deliver(c, fns, role, event, thrower) ==
    IF fns = <<>> THEN c
    ELSE LET c1 == listenerRun(c, Head(fns), role, event)
         IN IF Head(fns) = thrower THEN [c1 EXCEPT !.threw = TRUE]
            ELSE deliver(c1, Tail(fns), role, event, thrower)

\* MultiplexerConnection.emit(event)
emit(c, event, thrower) ==
    LET c1 == deliver(c, c.cListeners, "global", event, thrower)
    IN IF c1.threw THEN c1
       ELSE IF HasId(event) /\ c1.cIdListeners[event.id].present
            THEN deliver(c1, c1.cIdListeners[event.id].fns, "id", event, thrower)
       ELSE c1

\* ws.onmessage: a throw of JSON.parse or of a listener lands in the catch
clientOnMessage(c, frame, thrower) ==
    IF ~frame.parses THEN c
    ELSE IF frame.field = "event"
         THEN IF frame.event \in KnownEvents
              THEN [emit(c, MuxEvent(frame.event, frame.id), thrower) EXCEPT !.threw = FALSE]
              ELSE c
    ELSE IF frame.field = "data"
         THEN IF frame.data = "garbage" THEN c
              ELSE [emit(c, MuxEvent("data", frame.id), thrower) EXCEPT !.threw = FALSE]
    ELSE c

\* connect()
clientConnect(c) ==
    IF c.cWs # 0 THEN c
    ELSE LET n == CHOOSE k \in 1..MaxChannels :
                     c.chan[k] = "none" /\ \A j \in 1..(k - 1) : c.chan[j] # "none"
         IN [c EXCEPT !.cWs = n, !.chan[n] = "connecting"]

\* ws.onopen of socket n
clientOnOpen(c, n, thrower) ==
    emit([c EXCEPT !.chan[n] = "open", !.cConnected = TRUE],
         MuxEvent("multiplexer_connected", ""), thrower)

\* ws.onclose of socket n: the last statement is not reached when a listener throws
clientOnClose(c, n, thrower) ==
    LET c1 == emit([c EXCEPT !.chan[n] = "closed", !.cConnected = FALSE],
                   MuxEvent("multiplexer_disconnected", ""), thrower)
    IN IF c1.threw THEN c1 ELSE [c1 EXCEPT !.cWs = 0]

\* disconnect()
clientDisconnect(c) ==
    LET c1 == IF c.cWs # 0
              THEN [c EXCEPT !.chan[c.cWs] = IF @ \in {"connecting", "open"} THEN "closing" ELSE @,
                             !.cWs = 0]
              ELSE c
    IN [c1 EXCEPT !.cConnected = FALSE]

\* subscribe(listener)
subscribe(c, fn) ==
    [c EXCEPT !.cListeners = SetAdd(@, fn),
              !.cHandles = Append(@, [kind |-> "global", id |-> "", fn |-> fn, calls |-> 0])]

\* subscribeToId(id, listener)
subscribeToId(c, id, fn) ==
    [c EXCEPT !.cIdListeners[id] = [present |-> TRUE, fns |-> SetAdd(@.fns, fn)],
              !.cHandles = Append(@, [kind |-> "id", id |-> id, fn |-> fn, calls |-> 0])]

\* the function subscribe returned
unsubscribeGlobal(c, fn) == [c EXCEPT !.cListeners = SetDelete(@, fn)]

\* the function subscribeToId returned
unsubscribeId(c, id, fn) ==
    IF ~c.cIdListeners[id].present THEN c
    ELSE LET rest == SetDelete(c.cIdListeners[id].fns, fn)
         IN [c EXCEPT !.cIdListeners[id] =
                         IF rest = <<>> THEN [present |-> FALSE, fns |-> <<>>]
                         ELSE [present |-> TRUE, fns |-> rest]]

\* handle k is called
callHandle(c, k) ==
    LET h == c.cHandles[k]
        c1 == IF h.kind = "global" THEN unsubscribeGlobal(c, h.fn)
              ELSE unsubscribeId(c, h.id, h.fn)
    IN [c1 EXCEPT !.cHandles[k].calls = Min(@ + 1, 2)]

\* connectTerminal({connection, id: termId}): the two subscriptions, and the
\* initial resize at once when the connection is open already
connectTerminal(c) ==
    LET c1 == subscribeToId(c, termId, "termId")
        c2 == subscribe(c1, "termGlobal")
        c3 == [c2 EXCEPT !.termAttached = TRUE]
    IN IF c3.cConnected THEN sendInitialResize(c3) ELSE c3

CommitClient(result) ==
    \E t \in {result} :
    /\ cWs' = t.cWs
    /\ cConnected' = t.cConnected
    /\ chan' = t.chan
    /\ cListeners' = t.cListeners
    /\ cIdListeners' = t.cIdListeners
    /\ cHandles' = t.cHandles
    /\ cDelivered' = t.cDelivered
    /\ termAttached' = t.termAttached
    /\ initialResizeSent' = t.initialResizeSent
    /\ cWritten' = t.cWritten
    /\ UNCHANGED <<sessVars, diffVars, muxVars, tunVars>>

\* the listeners that can throw in a step: one of those subscribed, or none
Throwers == PageListeners \cup {NoListener}

ClientConnect ==
    /\ cWs = 0
    /\ \E k \in 1..MaxChannels : chan[k] = "none"
    /\ CommitClient(clientConnect(C))

ClientDisconnect == CommitClient(clientDisconnect(C))

ChannelOpens(n, thrower) ==
    /\ chan[n] = "connecting"
    /\ CommitClient(clientOnOpen(C, n, thrower))

ChannelCloses(n, thrower) ==
    /\ chan[n] \in {"connecting", "open", "closing"}
    /\ CommitClient(clientOnClose(C, n, thrower))

\* a frame arrives on the socket this.ws refers to
ClientMessage(shape, thrower) ==
    /\ cWs # 0
    /\ chan[cWs] = "open"
    /\ CommitClient(clientOnMessage(C, shape, thrower))

Subscribe(fn) ==
    /\ Len(cHandles) < MaxHandles
    /\ CommitClient(subscribe(C, fn))

SubscribeToId(id, fn) ==
    /\ Len(cHandles) < MaxHandles
    /\ CommitClient(subscribeToId(C, id, fn))

CallHandle(k) ==
    /\ k \in 1..Len(cHandles)
    /\ CommitClient(callHandle(C, k))

ConnectTerminal ==
    /\ ~termAttached
    /\ CommitClient(connectTerminal(C))

\* the page subscribes, unsubscribes and receives on one socket
NextListeners ==
    \/ ClientConnect
    \/ ChannelOpens(1, NoListener)
    \/ \E fn \in PageListeners : Subscribe(fn)
    \/ \E id \in ClientIds, fn \in PageListeners : SubscribeToId(id, fn)
    \/ \E k \in 1..MaxHandles : CallHandle(k)
    \/ \E shape \in ClientFrameShapes, thrower \in Throwers : ClientMessage(shape, thrower)

SpecListeners == Init /\ [][NextListeners]_vars

\* a viewer with one terminal connects, disconnects and reconnects
NextViewer ==
    \/ ClientConnect
    \/ ClientDisconnect
    \/ \E n \in 1..MaxChannels : ChannelOpens(n, NoListener)
    \/ \E n \in 1..MaxChannels : ChannelCloses(n, NoListener)
    \/ ConnectTerminal
    \/ \E shape \in ClientFrameShapes : ClientMessage(shape, NoListener)

SpecViewer == Init /\ [][NextViewer]_vars

(***************************************************************************)
(* Properties                                                              *)
(***************************************************************************)
HasType(msgs, type) == \E i \in 1..Len(msgs) : msgs[i].type = type
TickDone == finished
TickOk == captured # <<>>

\* C1 as stated: applyDiff(prev, diffLines(prev, next)) equals next for all line
\* arrays prev and next, whatever their lengths.
C1_RoundTrip == dPc = "applied" => dResult = dNext

\* C1 amended: applyDiff(prev, diffLines(prev, next)) equals next when prev is
\* not longer than next; when prev is longer the result keeps the length of
\* prev, its first |next| lines are those of next and the others are empty lines.
C1_RoundTripUpToLength ==
    dPc = "applied" =>
        /\ Len(dResult) = IF Len(dPrev) > Len(dNext) THEN Len(dPrev) ELSE Len(dNext)
        /\ \A i \in 1..Len(dResult) :
              dResult[i] = IF i <= Len(dNext) THEN dNext[i] ELSE [spans |-> <<>>]
        /\ Len(dPrev) <= Len(dNext) => dResult = dNext

\* a longer prev with a changed first line went through diffLines and applyDiff
C1_Witness ==
    /\ dPc = "applied"
    /\ Len(dPrev) > Len(dNext)
    /\ Len(dNext) >= 1
    /\ dPrev[1] # dNext[1]
    /\ dResult[1] = dNext[1]

\* C2: the first frame-bearing message sent after the session starts, and the
\* first one sent after each resize the session handled, is a full.
C2_FirstSendIsFull ==
    [][(needFull /\ FrameMsgs(emitted') # <<>>) => FrameMsgs(emitted')[1].type = "full"]_vars

\* a full answers a resize that arrived while a tick was suspended in renderOnce
C2_Witness ==
    /\ TickOk
    /\ answered # NoReq
    /\ answered.during
    /\ HasType(emitted, "full")
    /\ clientLines = lastLines

\* C3: a browser applying every full and diff in emission order holds exactly
\* lastLines after each frame-bearing message, and every diff was computed
\* against the lines the browser held.
C3_ClientHoldsLastLines ==
    [][FrameMsgs(emitted') # <<>> =>
         /\ clientLines' = lastLines'
         /\ HasType(emitted', "diff") => clientLines = lastLines]_vars

\* a diff was applied by the browser
C3_Witness ==
    /\ HasType(emitted, "diff")
    /\ clientLines = lastLines
    /\ Len(clientLines) = 2

\* C4: at most one tick body is between rendering = true and its finally block;
\* a tick that coalesced N >= 1 requests is followed by exactly one tick() call
\* of its finally block, which starts the next body, and by none when N = 0.
C4_SingleFlight ==
    /\ ticksInFlight <= 1
    /\ rendering <=> ticksInFlight = 1
    /\ TickDone =>
         /\ followUps = IF coalesced >= 1 THEN 1 ELSE 0
         /\ (followUps = 1 /\ ~destroyed) => (ticksInFlight = 1 /\ ~pendingRender)
         /\ followUps = 0 => ticksInFlight = 0

\* two requests arrived during a tick and one follow-up tick is running
C4_Witness ==
    /\ TickDone
    /\ coalesced = 2
    /\ followUps = 1
    /\ ticksInFlight = 1

\* C5: once destroy() has been called the session emits no message.
C5_SilentAfterDestroy == [][destroyed => emitted' = <<>>]_vars

\* C6: destroy() called again, re-entrantly from the cleanup callback or later,
\* changes nothing: cleanup ran at most once, the renderer was destroyed at most
\* once, and a call on a destroyed session leaves the session as it was.
C6_DestroyIdempotent ==
    /\ [](cleanupCalls <= 1 /\ rendererDestroys <= 1)
    /\ [][(destroyed /\ destroyAgain' /\ ~destroyAgain) =>
            UNCHANGED <<testRenderer, currentCols, currentRows, lastLines, lastCursor,
                        cleanup, rendering, pendingRender, renderInterval, destroyed,
                        initialized, initPc, ticksInFlight, rSize, rendererDestroys,
                        cleanupCalls, clientLines, clientCursor>>]_vars

\* destroy() ran twice on an initialized session with a cleanup callback
C6_Witness ==
    /\ destroyAgain
    /\ cleanupCalls = 1
    /\ rendererDestroys = 1

\* C7: once destroy() was called and initialize() is no longer awaiting, the
\* interval is cleared, a created renderer is destroyed and a returned cleanup
\* callback has run exactly once.
C7_DestroyReleases ==
    (destroyed /\ initPc # "awaitCreate") =>
        /\ ~renderInterval
        /\ testRenderer => rendererDestroys = 1
        /\ cleanupReturned => cleanupCalls = 1

\* C8: the frame-bearing message that follows a handled resize(c, r) with
\* c <= maxCols and r <= maxRows is a full with data.cols = c and data.rows = r.
C8_ResizeAnswered ==
    answered # NoReq =>
        /\ FrameMsgs(emitted)[1].type = "full"
        /\ FrameMsgs(emitted)[1].data.cols = answered.cols
        /\ FrameMsgs(emitted)[1].data.rows = answered.rows

\* C9: in a tick with lastLines not empty and changes = diffLines(lastLines,
\* frame.lines): more changes than half the lines send a full, 1..half changes
\* send a diff with exactly those changes, and lastLines becomes frame.lines.
C9_Threshold ==
    [][(captured' # <<>> /\ lastLines # <<>>) =>
        LET data == captured'[1]
            changes == diffLines(lastLines, data.lines)
        IN /\ 2 * Len(changes) > Len(data.lines) =>
                FrameMsgs(emitted') = <<[type |-> "full", data |-> data]>>
           /\ (Len(changes) >= 1 /\ 2 * Len(changes) <= Len(data.lines)) =>
                FrameMsgs(emitted') = <<[type |-> "diff", changes |-> changes]>>
           /\ Len(changes) = 0 => FrameMsgs(emitted') = <<>>
           /\ lastLines' = data.lines]_vars

\* a diff whose changes are exactly half of the lines
C9_Witness ==
    /\ TickOk
    /\ HasType(emitted, "diff")
    /\ 2 * Len(FrameMsgs(emitted)[1].changes) = Len(lastLines)

\* C10 as stated: a tick emits a cursor message iff the captured cursor differs
\* from the cursor state emitted before.
C10_CursorIff ==
    [][(captured' # <<>> /\ clientCursor # NullCursor) =>
         (HasType(emitted', "cursor") <=> CursorOf(captured'[1]) # clientCursor)]_vars

\* C10 amended: a tick whose lastLines is not empty emits a cursor message,
\* carrying the captured cursor, iff that cursor differs from lastCursor; a tick
\* on the first-frame path emits only the full, whose data carries the cursor;
\* either way lastCursor and the browser then hold the captured cursor.
C10_CursorReported ==
    [][captured' # <<>> =>
        LET data == captured'[1]
            cursor == [x |-> data.cursor[1], y |-> data.cursor[2],
                       visible |-> data.cursorVisible]
            cursorMsgs == SelectSeq(emitted', LAMBDA m : m.type = "cursor")
        IN /\ lastLines # <<>> =>
                /\ Len(cursorMsgs) = (IF cursor # lastCursor THEN 1 ELSE 0)
                /\ \A i \in 1..Len(cursorMsgs) :
                     /\ cursorMsgs[i].x = cursor.x
                     /\ cursorMsgs[i].y = cursor.y
                     /\ cursorMsgs[i].visible = cursor.visible
           /\ lastLines = <<>> => emitted' = <<[type |-> "full", data |-> data]>>
           /\ lastCursor' = cursor
           /\ clientCursor' = cursor]_vars

\* a tick sent a diff and a cursor message
C10_Witness ==
    /\ TickOk
    /\ HasType(emitted, "diff")
    /\ HasType(emitted, "cursor")
    /\ clientCursor = lastCursor

\* C11: a ping handled by a session that was not destroyed emits exactly one
\* pong in the same step, requests no tick and changes nothing else: lastLines,
\* lastCursor, the size, rendering, pendingRender and the initialization state
\* stay as they were, before the first resize as well as after it.
C11_PingPong ==
    [][(~destroyed /\ ~finished' /\ keyOutcome' = "none" /\ HandlePing) =>
         /\ emitted' = <<[type |-> "pong"]>>
         /\ followUps' = 0
         /\ UNCHANGED <<testRenderer, currentCols, currentRows, lastLines, lastCursor,
                        cleanup, rendering, pendingRender, renderInterval, destroyed,
                        initialized, initPc, initArgs, ticksInFlight, reqDuringRun,
                        rSize, rendererDestroys, onConnectionCalls, cleanupCalls,
                        clientLines, clientCursor>>]_vars

\* a pong answered a ping of an initialized session with no tick running
C11_Witness ==
    /\ emitted = <<[type |-> "pong"]>>
    /\ testRenderer
    /\ ~rendering
    /\ ~destroyed

\* C12: diffLines(prev, next) lists, in strictly ascending index order, exactly
\* one record for each i in [0, max(|prev|, |next|)) whose lines are not
\* structurally equal (same span count, pairwise equal text, fg, bg, flags,
\* width), carrying next[i], or the empty line when next has no line i, and no
\* record for any other i.
C12_DiffContract ==
    dPc \in {"diffed", "applied"} =>
        LET n == IF Len(dPrev) >= Len(dNext) THEN Len(dPrev) ELSE Len(dNext)
            same(i) ==
                /\ i + 1 <= Len(dPrev)
                /\ i + 1 <= Len(dNext)
                /\ Len(dPrev[i + 1].spans) = Len(dNext[i + 1].spans)
                /\ \A k \in 1..Len(dPrev[i + 1].spans) :
                      LET a == dPrev[i + 1].spans[k]
                          b == dNext[i + 1].spans[k]
                      IN a.text = b.text /\ a.fg = b.fg /\ a.bg = b.bg
                         /\ a.flags = b.flags /\ a.width = b.width
        IN /\ \A k \in 1..(Len(dChanges) - 1) : dChanges[k].index < dChanges[k + 1].index
           /\ \A k \in 1..Len(dChanges) :
                /\ dChanges[k].index \in 0..(n - 1)
                /\ ~same(dChanges[k].index)
                /\ dChanges[k].line =
                      IF dChanges[k].index + 1 <= Len(dNext)
                      THEN dNext[dChanges[k].index + 1]
                      ELSE [spans |-> <<>>]
           /\ \A i \in 0..(n - 1) :
                ~same(i) => \E k \in 1..Len(dChanges) : dChanges[k].index = i

\* a longer prev whose first line is kept, second line changed and third line
\* dropped gave two records
C12_Witness ==
    /\ dPc = "diffed"
    /\ Len(dPrev) = 3
    /\ Len(dNext) = 2
    /\ dPrev[1] = dNext[1]
    /\ dPrev[2] # dNext[2]
    /\ Len(dChanges) = 2

\* C13: diffLines(a, b) is the empty list if and only if a and b have the same
\* length and pairwise structurally equal lines.
C13_EmptyIffEqual ==
    dPc \in {"diffed", "applied"} =>
        (Len(dChanges) = 0 <=>
            /\ Len(dPrev) = Len(dNext)
            /\ \A i \in 1..Len(dPrev) :
                  /\ Len(dPrev[i].spans) = Len(dNext[i].spans)
                  /\ \A k \in 1..Len(dPrev[i].spans) :
                        dPrev[i].spans[k] = dNext[i].spans[k])

\* two equal arrays of three lines, not all empty, gave an empty diff
C13_Witness ==
    /\ dPc = "diffed"
    /\ Len(dPrev) = 3
    /\ dPrev = dNext
    /\ dPrev[3] # [spans |-> <<>>]
    /\ dChanges = <<>>

\* C14: applyDiff(lines, changes) holds the change's line at the index of every
\* change, the line of lines at every index no change names, and the empty
\* line {spans: []} at every index it created below a change index past the
\* end of lines; lines itself is left as it was.
C14_ApplyContract ==
    dPc = "applyDone" =>
        LET named == {dChanges[k].index + 1 : k \in 1..Len(dChanges)}
        IN /\ \A k \in 1..Len(dChanges) :
                /\ dChanges[k].index + 1 <= Len(dResult)
                /\ dResult[dChanges[k].index + 1] = dChanges[k].line
           /\ Len(dResult) >= Len(dPrev)
           /\ \A i \in (1..Len(dResult)) \ named :
                dResult[i] = IF i <= Len(dPrev) THEN dPrev[i] ELSE [spans |-> <<>>]

\* C15: no renderer is created before a resize message was handled, only a
\* resize starts the initialization, and a key, mouse or scroll message handled
\* while the renderer does not exist is dropped: no input is injected, no tick
\* is requested, nothing is emitted and the session state stays as it was.
C15_LazyInit ==
    /\ [](~initialized =>
            (~testRenderer /\ initPc = "idle" /\ ~renderInterval /\ onConnectionCalls = 0))
    /\ [][(~initialized /\ initialized') =>
            \E cols \in ResizeCols, rows \in ResizeRows : HandleResize(cols, rows)]_vars
    /\ [][(~destroyed /\ ~testRenderer /\ HandleKey) =>
            /\ keyOutcome' = "dropped"
            /\ emitted' = <<>>
            /\ followUps' = 0
            /\ UNCHANGED <<testRenderer, currentCols, currentRows, lastLines, lastCursor,
                           cleanup, rendering, pendingRender, renderInterval, destroyed,
                           initialized, initPc, initArgs, ticksInFlight, reqDuringRun,
                           rSize, rendererDestroys, onConnectionCalls, cleanupCalls,
                           clientLines, clientCursor>>]_vars

\* a key was dropped while initialize() was awaiting createTestRenderer
C15_Witness ==
    /\ keyOutcome = "dropped"
    /\ initPc = "awaitCreate"
    /\ ~testRenderer
    /\ ~destroyed

\* C16: onConnection is invoked at most once however many resize messages
\* arrive, only after a resize was received and the renderer was created, and
\* never on a session that was already destroyed.
C16_OnConnectionOnce ==
    /\ [](onConnectionCalls <= 1)
    /\ [][onConnectionCalls' # onConnectionCalls =>
            (initialized /\ testRenderer' /\ ~destroyed)]_vars

\* C17: when renderOnce or captureSpans throws inside a tick, the session emits
\* one error message carrying String(reason) and nothing else, lastLines and
\* lastCursor stay as they were, the failed body ends with rendering reset, the
\* session is not destroyed by it, and ticks go on: either the follow-up tick
\* is already running or the next tick() call starts a body.
C17_RenderError ==
    [][\A error \in Thrown : (finished' /\ captured' = <<>> /\ TickThrows(error)) =>
         /\ emitted' =
              <<[type |-> "error",
                 message |-> IF error.kind = "Error" THEN "Error: render failed"
                             ELSE "capture failed"]>>
         /\ UNCHANGED <<lastLines, lastCursor, destroyed, renderInterval, testRenderer>>
         /\ finished'
         /\ rendering' <=> (followUps' = 1 /\ ~destroyed)
         /\ ~destroyed => \/ ticksInFlight' = 1
                          \/ (~rendering' /\ testRenderer' /\ renderInterval')]_vars

\* a tick that had sent frames before failed and the session goes on
C17_Witness ==
    /\ HasType(emitted, "error")
    /\ finished
    /\ lastLines # <<>>
    /\ lastCursor # NullCursor
    /\ ~destroyed
    /\ ~rendering
    /\ renderInterval

\* C18: when the cleanup callback throws during destroy(), destroy() swallows
\* the exception: nothing propagates to its caller, the interval is cleared,
\* the renderer is destroyed and the session ends destroyed.
C18_CleanupThrows ==
    /\ [](cleanupError # "propagated")
    /\ [][cleanupError' = "swallowed" =>
            /\ destroyed'
            /\ ~renderInterval'
            /\ cleanupCalls' = 1
            /\ testRenderer' => rendererDestroys' = rendererDestroys + 1]_vars

\* cleanup threw while destroy() ran on a session with a renderer and a timer
C18_Witness ==
    /\ cleanupError = "swallowed"
    /\ destroyed
    /\ testRenderer
    /\ rendererDestroys = 1
    /\ ~renderInterval

\* C19: when a write through send throws, the session is marked destroyed, so
\* that no later write is attempted, and lastLines is not advanced to the
\* frame that was not written.
C19_WriteFailure ==
    [][writeFailed' => (destroyed' /\ lastLines' = lastLines)]_vars

\* C20: a session whose initial dimensions are <= 0 or exceed maxCols/maxRows
\* is rejected: the resize that carries them starts no initialization, so no
\* renderer is created and onConnection is not called.
C20_InvalidSizeRejected ==
    [][\A cols \in ResizeCols, rows \in ResizeRows :
         (/\ HandleResize(cols, rows)
          /\ ~initialized
          /\ ~destroyed
          /\ (cols <= 0 \/ rows <= 0 \/ cols > maxCols \/ rows > maxRows)) =>
            (~initialized' /\ initPc' = "idle" /\ ~testRenderer')]_vars

\* C21: the size a resize(c, r) hands to createTestRenderer or to resize is
\* (min(c, maxCols), min(r, maxRows)), so the session's cols never exceed
\* maxCols and its rows never exceed maxRows.
C21_ResizeClamped ==
    /\ [](/\ currentCols <= maxCols /\ currentRows <= maxRows
          /\ rSize[1] <= maxCols /\ rSize[2] <= maxRows
          /\ initArgs[1] <= maxCols /\ initArgs[2] <= maxRows)
    /\ [][\A cols \in ResizeCols, rows \in ResizeRows :
            (/\ ~destroyed
             /\ ~initialized \/ testRenderer
             /\ needFull' /\ ~finished' /\ emitted' = <<>>
             /\ resizeReq' = IF cols <= maxCols /\ rows <= maxRows
                             THEN [cols |-> cols, rows |-> rows, during |-> rendering]
                             ELSE NoReq
             /\ HandleResize(cols, rows)) =>
               LET size == <<IF cols < maxCols THEN cols ELSE maxCols,
                             IF rows < maxRows THEN rows ELSE maxRows>>
               IN /\ currentCols' = size[1]
                  /\ currentRows' = size[2]
                  /\ IF initialized THEN rSize' = size ELSE initArgs' = size]_vars

\* a running session handled a resize past both maxima
C21_Witness ==
    /\ needFull
    /\ resizeReq = NoReq
    /\ testRenderer
    /\ ~destroyed
    /\ rSize = <<maxCols, maxRows>>
    /\ currentCols = maxCols
    /\ currentRows = maxRows
    /\ lastLines = <<>>
    /\ clientLines # <<>>

\* C22: a scroll message with lines n handled by an initialized session injects
\* exactly min(|n|, 50) wheel events, all down when n > 0 and all up when
\* n < 0, none when n = 0, and then requests a tick.
C22_ScrollEvents ==
    [][\A lines \in ScrollLines :
         (~destroyed /\ testRenderer /\ ~finished' /\ keyOutcome' = "none"
          /\ HandleScroll(lines)) =>
            LET n == IF lines < 0 THEN -lines ELSE lines
            IN /\ wheel'.count = IF n < 50 THEN n ELSE 50
               /\ lines > 0 => wheel'.direction = "down"
               /\ lines < 0 => wheel'.direction = "up"
               /\ IF rendering THEN pendingRender'
                  ELSE rendering' /\ ticksInFlight' = ticksInFlight + 1]_vars

\* a scroll past the cap injected fifty wheel events upwards and started a tick
C22_Witness ==
    /\ wheel = [count |-> 50, direction |-> "up"]
    /\ rendering
    /\ ~pendingRender
    /\ ~destroyed

\* C23: both scroll forms inject at least one wheel event in their direction:
\* a mouse message with action scroll and button 4 (up) or 5 (down), and a
\* scroll message with lines other than zero.
C23_BothScrollForms ==
    /\ [][\A button \in {4, 5} :
            (~destroyed /\ testRenderer /\ ~finished' /\ HandleMouse("scroll", button)) =>
               /\ wheel'.count >= 1
               /\ wheel'.direction = IF button = 4 THEN "up" ELSE "down"]_vars
    /\ [][\A lines \in ScrollLines \ {0} :
            (~destroyed /\ testRenderer /\ ~finished' /\ HandleScroll(lines)) =>
               /\ wheel'.count >= 1
               /\ wheel'.direction = IF lines < 0 THEN "up" ELSE "down"]_vars

\* C24: a key, mouse or scroll message injected into an initialized session
\* that is not destroyed requests a tick at once: with no tick running a
\* renderOnce call starts in the same step, otherwise the request is pending
\* and, renderOnce returning, the follow-up tick starts its renderOnce call,
\* unless the session is destroyed first.
C24_InputRequestsTick ==
    /\ [][(~destroyed /\ (keyOutcome' = "injected" \/ wheel' # NoWheel)) =>
            IF rendering THEN pendingRender' /\ ticksInFlight' = 1
            ELSE rendering' /\ ticksInFlight' = 1]_vars
    /\ (pendingRender /\ ~destroyed) ~>
            (destroyed \/ (finished /\ followUps = 1 /\ rendering /\ ticksInFlight = 1))

\* a key arrived while a tick was suspended in renderOnce
C24_Witness ==
    /\ keyOutcome = "injected"
    /\ pendingRender
    /\ rendering
    /\ ticksInFlight = 1
    /\ ~destroyed


RECURSIVE DataSeq(_)
DataSeq(frames) ==
    IF frames = <<>> THEN <<>> ELSE <<DataOf(Head(frames))>> \o DataSeq(Tail(frames))

ForBoundId(frame) == frame.parses /\ frame.hasData /\ frame.id = tunnelId
ValidFrame(frame) == ForBoundId(frame) /\ DataParses(DataOf(frame))

\* C25: on a server connection the envelopes for the bound id that arrive while
\* createSession is awaited are buffered in arrival order and nothing reaches a
\* session; once the session is ready the session has been handed exactly the
\* parseable messages of those envelopes, once each and in arrival order, ahead
\* of every message that arrived later.
C25_BufferedThenReplayed ==
    /\ openPc = "awaitCreate" =>
          /\ handled = <<>>
          /\ pendingMessages = DataSeq(SelectSeq(arrived, ForBoundId))
    /\ openPc = "done" =>
          /\ handled = DataSeq(SelectSeq(arrived, ValidFrame))
          /\ pendingMessages = <<>>

\* two queued messages were replayed to the new session
C25_Witness ==
    /\ frameFate = "replayed"
    /\ Len(handled) >= 2
    /\ handled[1].n < handled[2].n

\* C26: the queue of messages received before the session is ready never grows
\* beyond a cap, here any cap below the number of frames that arrive.
C26_QueueBounded == Len(pendingMessages) < MaxArrivals

\* C27: once the open handler and the close handler have both finished, the
\* manager's registry holds no session of the connection and every session
\* created for it has been destroyed.
C27_CloseDestroysSession ==
    (wsClosed /\ openPc \in {"done", "failed"}) =>
        (sessions = {} /\ liveSessions = {})

\* C29: an envelope whose id is not the id the connection is bound to is
\* dropped: nothing is queued, nothing is handed to a session, and the
\* registry, the binding and the session stay as they were.
C29_IdMismatchDropped ==
    [][\A shape \in FrameShapes :
          (shape.parses /\ shape.hasData /\ shape.id # tunnelId /\ WsMessage(shape)) =>
             /\ frameFate' = "dropped"
             /\ UNCHANGED <<pendingMessages, handled, sessions, liveSessions,
                            wsSessionId, openPc, wsClosed, sessVars>>]_vars

\* an envelope for another id arrived at a connection whose session had
\* already handled a message
C29_Witness ==
    /\ frameFate = "dropped"
    /\ arrived # <<>>
    /\ arrived[Len(arrived)].id = otherId
    /\ openPc = "done"
    /\ handled # <<>>

\* C30: a frame whose envelope or whose data string does not parse changes no
\* session and does not close the connection, and the valid messages that
\* arrive after it are still handed to the session.
C30_ParseFailureDroppedAlone ==
    /\ [][\A shape \in FrameShapes :
            ((~shape.parses \/ (shape.id = tunnelId /\ shape.data = "garbage"))
              /\ WsMessage(shape)) =>
               /\ frameFate' \in {"dropped", "queued"}
               /\ UNCHANGED <<handled, sessions, liveSessions, wsSessionId,
                              openPc, wsClosed, sessVars>>]_vars
    /\ [](openPc = "done" =>
            \A i \in 1..Len(arrived) :
               ValidFrame(arrived[i]) =>
                  \E j \in 1..Len(handled) : handled[j] = DataOf(arrived[i]))

\* a valid message was handled after a frame that does not parse and after an
\* envelope whose data does not parse
C30_Witness ==
    /\ Len(arrived) = 3
    /\ ~arrived[1].parses
    /\ arrived[2].parses /\ arrived[2].data = "garbage"
    /\ frameFate = "handled"
    /\ handled = <<DataOf(arrived[3])>>
    /\ ~wsClosed


\* C28: when the creation of the renderer fails, the failure reaches the caller
\* of session creation and the registry holds no entry for the session; no
\* entry of the registry is a session without a renderer.
C28_CreateFailureNotRecorded ==
    /\ initPc = "failed" => (initError = "propagated" /\ ~registered)
    /\ openPc = "failed" => sessions = {}


\* C37: pendingRender is true only while rendering is true; rendering is false
\* whenever no tick body is executing, also after a tick that threw or that
\* returned on the first-frame path; a tick that ends with no pending request
\* leaves both flags false.
C37_PendingOnlyWhileRendering ==
    /\ pendingRender => rendering
    /\ ticksInFlight = 0 => (~rendering /\ ~pendingRender)
    /\ (TickDone /\ followUps = 0) => (~rendering /\ ~pendingRender)

\* a tick threw while a request was pending, and the follow-up tick is running
C37_Witness ==
    /\ TickDone
    /\ HasType(emitted, "error")
    /\ followUps = 1
    /\ rendering
    /\ ~pendingRender
    /\ ~destroyed

\* C38: after a resize is handled by a live session, the size the renderer has,
\* or the size it is being created with, is the clamped size of that resize.
C38_NoResizeLost ==
    [][\A cols \in ResizeCols, rows \in ResizeRows :
          (~destroyed /\ initPc # "failed" /\ HandleResize(cols, rows)) =>
             LET size == <<Min(cols, maxCols), Min(rows, maxRows)>>
             IN IF initPc' = "done" THEN rSize' = size ELSE initArgs' = size]_vars


C34_DisconnectOnce ==
    /\ [](tOnDisconnect <= 1)
    /\ [][(tOpenPc # "idle" /\
            (TunnelHostCloseDone \/ TunnelRelayClose([code |-> 1000, reason |-> ""]))) =>
              tOnDisconnect' = 1]_vars

\* C35: the session is never handed a pong, and it has been handed every other
\* message received on the open channel, once each and in arrival order, those
\* received while the session was being created included.
C35_EveryMessagePassed ==
    /\ \A i \in 1..Len(tHandled) : tHandled[i].type # "pong"
    /\ tSession =>
          tHandled = SelectSeq(tArrived, LAMBDA m : m.type \notin {"pong", "garbage"})

\* C36: the process has at most one SIGINT handler and at most one SIGTERM
\* handler of the tunnel client, however often connectTunnel is called.
C36_SignalHandlersOnce == sigintHandlers <= 1 /\ sigtermHandlers <= 1


InSeq(fns, fn) == \E i \in 1..Len(fns) : fns[i] = fn
Calls(delivered, fn, role) ==
    Cardinality({i \in 1..Len(delivered) : delivered[i].fn = fn /\ delivered[i].role = role})

\* C31: for every inbound envelope with id X (a data envelope or a lifecycle
\* event) every global listener is called exactly once with the event, every
\* listener of subscribeToId(X) is called exactly once, and no listener of
\* another id is called; multiplexer_connected goes to the global listeners
\* only.
C31_EnvelopeRouting ==
    /\ [][\A shape \in ClientFrameShapes, thrower \in Throwers :
            (/\ shape.parses
             /\ shape.event \in KnownEvents \/ shape.data = "full"
             /\ ClientMessage(shape, thrower)) =>
               \A fn \in PageListeners :
                  /\ Calls(cDelivered', fn, "global") = IF InSeq(cListeners, fn) THEN 1 ELSE 0
                  /\ Calls(cDelivered', fn, "id") =
                        IF InSeq(cIdListeners[shape.id].fns, fn) THEN 1 ELSE 0]_vars
    /\ [][ChannelOpens(1, NoListener) =>
            \A fn \in PageListeners :
               /\ Calls(cDelivered', fn, "global") = IF InSeq(cListeners, fn) THEN 1 ELSE 0
               /\ Calls(cDelivered', fn, "id") = 0]_vars

\* C32: the first call of an unsubscribe handle removes its listener from the
\* set it was added to, and every later call of the same handle changes
\* nothing, whatever was subscribed or unsubscribed in between.
C32_UnsubscribeIdempotent ==
    [][\A k \in 1..MaxHandles :
          (k <= Len(cHandles) /\ CallHandle(k)) =>
             IF cHandles[k].calls = 0
             THEN IF cHandles[k].kind = "global"
                  THEN ~InSeq(cListeners', cHandles[k].fn)
                  ELSE ~InSeq(cIdListeners'[cHandles[k].id].fns, cHandles[k].fn)
             ELSE UNCHANGED <<cListeners, cIdListeners>>]_vars

\* C39: at most one socket of the connection is connecting or open, connected
\* is true only while the socket this.ws refers to is open, and the close
\* callback of a socket that this.ws no longer refers to changes neither
\* this.ws nor connected.
C39_OneLiveChannel ==
    /\ [](Cardinality({n \in 1..MaxChannels : chan[n] \in {"connecting", "open"}}) <= 1)
    /\ [](cConnected => (cWs # 0 /\ chan[cWs] = "open"))
    /\ [][\A n \in 1..MaxChannels :
            (n # cWs /\ ChannelCloses(n, NoListener)) =>
               (cWs' = cWs /\ cConnected' = cConnected)]_vars

\* C40: an attached terminal writes a resize for its id when the multiplexer
\* connects and whenever upstream_connected for its id is received on the open
\* socket.
C40_ResizeOnUpstreamConnected ==
    /\ [][(/\ termAttached
           /\ ClientMessage([parses |-> TRUE, field |-> "event",
                             event |-> "upstream_connected", id |-> termId,
                             data |-> "none"], NoListener)) =>
             cWritten' = Append(cWritten, [id |-> termId, type |-> "resize"])]_vars
    /\ [][\A n \in 1..MaxChannels :
            (termAttached /\ ChannelOpens(n, NoListener)) =>
               cWritten' = Append(cWritten, [id |-> termId, type |-> "resize"])]_vars

====
